---- MODULE Spec2Model ----
(***************************************************************************)
(* Forecasting engine of the aid-flow backend                              *)
(* (src/app/routers/forecasting.py): generate_forecast and                 *)
(* generate_shap_explanations as a state machine over the observation      *)
(* store, with the regression library as an oracle of its outcomes.        *)
(*                                                                         *)
(* Numbers.  Python floats are modelled as exact rationals <<n, d>> with   *)
(* d > 0 in lowest terms.  round(x, 2) yields an integer number of         *)
(* hundredths, accuracies are kept in tenths of a percent (750 = 75.0).    *)
(***************************************************************************)
EXTENDS Integers, Sequences, FiniteSets, TLC

(***************************************************************************)
(* Bounds of the model.                                                    *)
(***************************************************************************)
MaxLen == 5
MaxYears == 2
MaxShapLen == 3
MaxShapYears == 6

(***************************************************************************)
(* Rational arithmetic.                                                    *)
(***************************************************************************)
Abs(x) == IF x < 0 THEN -x ELSE x

RECURSIVE Gcd(_, _)
Gcd(a, b) == IF b = 0 THEN a ELSE Gcd(b, a % b)

Norm(n, d) ==
    LET g == Gcd(Abs(n), Abs(d))
        s == IF d < 0 THEN -1 ELSE 1
    IN  <<s * (n \div g), s * (d \div g)>>

R(n) == <<n, 1>>
Frac(n, d) == Norm(n, d)
RAdd(x, y) ==
    LET g == Gcd(x[2], y[2])
    IN  Norm(x[1] * (y[2] \div g) + y[1] * (x[2] \div g), (x[2] \div g) * y[2])
RNeg(x) == <<-x[1], x[2]>>
RSub(x, y) == RAdd(x, RNeg(y))
RMul(x, y) ==
    LET a == Norm(x[1], y[2])
        b == Norm(y[1], x[2])
    IN  <<a[1] * b[1], a[2] * b[2]>>
RDiv(x, y) == RMul(x, Norm(y[2], y[1]))
RAbs(x) == <<Abs(x[1]), x[2]>>
RSign(x) == IF x[1] > 0 THEN 1 ELSE IF x[1] < 0 THEN -1 ELSE 0
RLess(x, y) == RSign(RSub(x, y)) < 0
RLeq(x, y) == RSign(RSub(x, y)) <= 0
RMax(x, y) == IF RLess(x, y) THEN y ELSE x

RECURSIVE RPow(_, _)
RPow(x, k) == IF k = 0 THEN R(1) ELSE RMul(x, RPow(x, k - 1))

(* round(x, 2): the nearest hundredth, ties to even, as an integer number  *)
(* of hundredths.                                                          *)
Round2(x) ==
    LET n == Abs(x[1])
        d == x[2]
        q == n \div d
        r == n % d
        t == (r * 10) \div d
        r1 == (r * 10) % d
        h == (r1 * 10) \div d
        r2 == (r1 * 10) % d
        c == q * 100 + t * 10 + h
        up == IF 2 * r2 > d THEN 1
              ELSE IF 2 * r2 = d /\ c % 2 = 1 THEN 1 ELSE 0
    IN  (IF x[1] < 0 THEN -1 ELSE 1) * (c + up)


(***************************************************************************)
(* Text.  A Python str is a sequence of one-character strings; an          *)
(* Optional[str] is [some |-> BOOLEAN, val |-> str].                       *)
(***************************************************************************)
UpperChars == <<"A","B","C","D","E","F","G","H","I","J","K","L","M",
                "N","O","P","Q","R","S","T","U","V","W","X","Y","Z">>
LowerChars == <<"a","b","c","d","e","f","g","h","i","j","k","l","m",
                "n","o","p","q","r","s","t","u","v","w","x","y","z">>

LowerChar(c) ==
    IF \E i \in 1..Len(UpperChars) : UpperChars[i] = c
    THEN LowerChars[CHOOSE i \in 1..Len(UpperChars) : UpperChars[i] = c]
    ELSE c

(* str.lower() *)
Lower(s) == [i \in 1..Len(s) |-> LowerChar(s[i])]

(* name ILIKE '%' || pattern || '%' *)
ILikeContains(name, pattern) ==
    LET n == Lower(name)
        q == Lower(pattern)
    IN  \E i \in 0..(Len(n) - Len(q)) : SubSeq(n, i + 1, i + Len(q)) = q

NoneStr == [some |-> FALSE, val |-> <<>>]
Str(s) == [some |-> TRUE, val |-> s]
(* truth value of an Optional[str]: None and "" are false *)
Truthy(o) == o.some /\ o.val # <<>>

StrAll == <<"a","l","l">>
StrALL == <<"A","L","L">>
StrHealth == <<"H","e","a","l","t","h">>
StrOverall == <<"O","v","e","r","a","l","l">>
StrOutlineHealth == <<"I",".","2",".","b","."," ","H","e","a","l","t","h">>

(***************************************************************************)
(* The observation store: the aid_records rows of the countries matching   *)
(* the request, each [year, sector, amount] (models.py, AidRecord).        *)
(***************************************************************************)
FirstYear == 2020
Amounts == {0, 1, 7}

ShapAmounts == {1, 2}

(* every sequence of at most n yearly amounts *)
SeqsUpTo(amounts, n) == UNION {[1..k -> amounts] : k \in 0..n}

YearStep == 2

(* One row per year for a sector; the years need not be contiguous. *)
RowsOf(sector, a) ==
    {[year |-> FirstYear + YearStep * (k - 1), sector |-> sector,
      amount |-> a[k]] : k \in 1..Len(a)}

RECURSIVE SumAmounts(_)
SumAmounts(rows) ==
    IF rows = {} THEN 0
    ELSE LET r == CHOOSE r \in rows : TRUE
         IN  r.amount + SumAmounts(rows \ {r})

RECURSIVE GroupByYear(_, _)
(* SELECT year, SUM(amount) ... GROUP BY year ORDER BY year *)
GroupByYear(rows, years) ==
    IF years = {} THEN <<>>
    ELSE LET y == CHOOSE y \in years : \A z \in years : y <= z
         IN  <<[year |-> y,
                total_aid |-> SumAmounts({r \in rows : r.year = y})]>>
             \o GroupByYear(rows, years \ {y})

RunQuery(rows, filtered, pattern) ==
    LET m == {r \in rows : ~filtered \/ ILikeContains(r.sector, pattern)}
    IN  GroupByYear(m, {r.year : r \in m})

(* The sector condition of generate_forecast's query. *)
ForecastFilters(sector) == Truthy(sector) /\ Lower(sector.val) # StrAll

ForecastQuery(rows, r) == RunQuery(rows, ForecastFilters(r.sector), r.sector.val)

(* The sector condition of generate_shap_explanations' query. *)
ShapFilters(sector) == Truthy(sector) /\ sector.val # StrAll

ShapQuery(rows, r) == RunQuery(rows, ShapFilters(r.sector), r.sector.val)


(***************************************************************************)
(* generate_forecast: the computation on the historical rows.              *)
(***************************************************************************)
Models == {"prophet", "xgboost", "hybrid"}

AccuracyFloor == 750
DefaultAccuracy == 800
FailedAccuracy == 750
CeilingProphet == 865
CeilingXgboost == 892
CeilingHybrid == 918

(* years / amounts lists of lines 170-171 *)
YearsOf(h) == [k \in 1..Len(h) |-> h[k].year]
AmountsOf(h) == [k \in 1..Len(h) |-> h[k].total_aid]

RECURSIVE MinOf(_)
MinOf(q) ==
    IF Len(q) = 1 THEN q[1]
    ELSE LET m == MinOf(Tail(q)) IN IF q[1] <= m THEN q[1] ELSE m

(* The first year of the list in place of the latest. *)
FirstOf(q) == q[1]

RECURSIVE MaxOf(_)
MaxOf(q) ==
    IF Len(q) = 1 THEN q[1]
    ELSE LET m == MaxOf(Tail(q)) IN IF q[1] >= m THEN q[1] ELSE m

(* The regressor chosen from the identifier alone. *)
ChooseByIdentifier(model, n) ==
    IF model = "prophet"
    THEN [kind |-> "RandomForest", n_estimators |-> 100, learning_rate |-> 0,
          max_depth |-> 0, expected |-> CeilingProphet]
    ELSE IF model = "xgboost"
    THEN [kind |-> "GradientBoosting", n_estimators |-> 100,
          learning_rate |-> 10, max_depth |-> 0, expected |-> CeilingXgboost]
    ELSE [kind |-> "GradientBoosting", n_estimators |-> 150,
          learning_rate |-> 8, max_depth |-> 4, expected |-> CeilingHybrid]

(* "Choose model based on request and data size": the regressor and its    *)
(* expected accuracy.                                                      *)
ChooseModel(model, n) ==
    IF model = "prophet" \/ n < 5
    THEN [kind |-> "RandomForest", n_estimators |-> 100, learning_rate |-> 0,
          max_depth |-> 0, expected |-> CeilingProphet]
    ELSE IF model = "xgboost"
    THEN [kind |-> "GradientBoosting", n_estimators |-> 100,
          learning_rate |-> 10, max_depth |-> 0, expected |-> CeilingXgboost]
    ELSE [kind |-> "GradientBoosting", n_estimators |-> 150,
          learning_rate |-> 8, max_depth |-> 4, expected |-> CeilingHybrid]

(* use_ml = len(df) >= 3 *)
UseMl(n) == n >= 3

(* The rows the model is fitted on: df.iloc[2:] *)
TrainingTargets(amounts) == SubSeq(amounts, 3, Len(amounts))

(* A float that may be NaN: [nan, val], val in tenths.  Python's min(a, b)  *)
(* and max(a, b) keep the first argument unless the second compares        *)
(* smaller (larger); every comparison with NaN is false.                   *)
NaN == [nan |-> TRUE, val |-> 0]
Num(v) == [nan |-> FALSE, val |-> v]
FLess(a, b) == ~a.nan /\ ~b.nan /\ a.val < b.val
PyMin(a, b) == IF FLess(b, a) THEN b ELSE a
PyMax(a, b) == IF FLess(a, b) THEN b ELSE a

(* The clamp without its floor. *)
ClampCeilingOnly(expected, r2) == PyMin(Num(expected), r2)

(* max(75.0, min(expected_accuracy, r2_accuracy * 100)) *)
ClampAccuracy(expected, r2) ==
    PyMax(Num(AccuracyFloor), PyMin(Num(expected), r2))

(* The change divided by the number of observations. *)
AvgOverCount(amounts) ==
    Frac(amounts[Len(amounts)] - amounts[1], Len(amounts))

(* (amounts[-1] - amounts[0]) / (len(amounts) - 1) *)
AvgAnnualChange(amounts) ==
    IF Len(amounts) > 1
    THEN Frac(amounts[Len(amounts)] - amounts[1], Len(amounts) - 1)
    ELSE R(0)

(* np.mean(np.diff(amounts[-3:])) if len(amounts) >= 3 else avg *)
RecentTrend(amounts) ==
    LET n == Len(amounts)
    IN  IF n >= 3 THEN Frac(amounts[n] - amounts[n - 2], 2)
        ELSE AvgAnnualChange(amounts)

(* What model.predict returns for a step: a tree ensemble answers with a   *)
(* value of its training targets.                                          *)
StepKinds == {"raise", "last", "min"}
RawPrediction(kind, amounts) ==
    IF kind = "last" THEN R(amounts[Len(amounts)])
    ELSE R(MinOf(TrainingTargets(amounts)))

(* The factor growing with the accuracy. *)
ConfidenceFactorInverted(accuracy) ==
    RAdd(RMul(Frac(accuracy, 1000), Frac(1, 4)), Frac(1, 10))

(* line 262: (100 - model_accuracy) / 100 * 0.25 + 0.10, accuracy in tenths *)
ConfidenceFactor(accuracy) ==
    RAdd(RMul(Frac(1000 - accuracy, 1000), Frac(1, 4)), Frac(1, 10))

(* lines 247-263: the model path of step i *)
MlStep(i, raw, amounts, accuracy) ==
    LET base == R(amounts[Len(amounts)])
        p1 == IF i = 1 /\ RLess(RAbs(RSub(raw, base)), R(1))
              THEN RAdd(base, RMul(RecentTrend(amounts), Frac(3, 4)))
              ELSE raw
        p2 == IF i > 1
              THEN RAdd(p1, RMul(RMul(AvgAnnualChange(amounts), Frac(1, 2)), R(i)))
              ELSE p1
        cf == ConfidenceFactor(accuracy.val)
    IN  [predicted |-> p2, variability |-> RMul(RAbs(p2), cf)]

(* The failure handler without the step index. *)
FailedStepOnce(i, amounts) ==
    LET p == RAdd(R(amounts[Len(amounts)]), AvgAnnualChange(amounts))
    IN  [predicted |-> p, variability |-> RMul(RAbs(p), Frac(1, 5))]

(* lines 265-268: the step whose prediction raised *)
FailedStep(i, amounts) ==
    LET p == RAdd(R(amounts[Len(amounts)]), RMul(AvgAnnualChange(amounts), R(i)))
    IN  [predicted |-> p, variability |-> RMul(RAbs(p), Frac(1, 5))]

(* line 271 *)
GrowthFactor(amounts) ==
    LET base == amounts[Len(amounts)]
    IN  IF base > 0
        THEN RAdd(R(1), RMul(RDiv(AvgAnnualChange(amounts), R(base)), Frac(1, 2)))
        ELSE Frac(105, 100)

(* lines 270-273: the trend step *)
TrendStep(i, amounts) ==
    LET p == RMul(R(amounts[Len(amounts)]), RPow(GrowthFactor(amounts), i))
    IN  [predicted |-> p, variability |-> RMul(RAbs(p), Frac(1, 5))]

(* float ** int raises OverflowError once the result leaves the double     *)
(* range: a factor of magnitude at least 2 raised to DBL_MAX_EXP or more.  *)
DBL_MAX_EXP == 1024
PowOverflows(g, i) == RLeq(R(2), RAbs(g)) /\ i >= DBL_MAX_EXP

(* lines 275-285: "Ensure realistic bounds" and the PredictionPoint *)
MakePoint(year, s) ==
    LET lower == RMax(R(0), RSub(s.predicted, s.variability))
        upper == RAdd(s.predicted, s.variability)
        predicted == RMax(R(0), s.predicted)
    IN  [year |-> year, predicted |-> Round2(predicted),
         lower |-> Round2(lower), upper |-> Round2(upper)]

(* One pass of the loop body, lines 235-285. *)
PredictionAt(i, h, ml, outcome, accuracy) ==
    LET amounts == AmountsOf(h)
        s == IF ml
             THEN IF outcome = "raise" THEN FailedStep(i, amounts)
                  ELSE MlStep(i, RawPrediction(outcome, amounts), amounts, accuracy)
             ELSE TrendStep(i, amounts)
    IN  MakePoint(MaxOf(YearsOf(h)) + i, s)

(* lines 330-354 *)
AccuracyMetrics(model, accuracy, ml) ==
    IF model = "prophet"
    THEN [prophet |-> accuracy,
          xgboost |-> Num(IF ml THEN 892 ELSE 845),
          hybrid |-> Num(IF ml THEN 918 ELSE 881),
          confidence |-> accuracy,
          method |-> IF ml THEN "Random Forest (Prophet Mode)" ELSE "Trend Analysis"]
    ELSE IF model = "xgboost"
    THEN [prophet |-> Num(IF ml THEN 865 ELSE 821),
          xgboost |-> accuracy,
          hybrid |-> Num(IF ml THEN 918 ELSE 881),
          confidence |-> accuracy,
          method |-> IF ml THEN "Gradient Boosting (XGBoost Mode)" ELSE "Trend Analysis"]
    ELSE [prophet |-> Num(IF ml THEN 865 ELSE 821),
          xgboost |-> Num(IF ml THEN 892 ELSE 845),
          hybrid |-> accuracy,
          confidence |-> accuracy,
          method |-> IF ml THEN "Advanced Gradient Boosting (Hybrid Mode)"
                     ELSE "Trend Analysis"]


(* f"{x:.1f}": the nearest tenth, as an integer number of tenths *)
Round1(x) == Round2(RDiv(x, R(10)))

(* The two re.sub calls of lines 317-318, both anchored at the start and    *)
(* ignoring case.  The first removes a run of I, V, X letters, then an     *)
(* optional group (a dot, digits, letters), an optional dot and blanks.    *)
(* The second removes one letter, an optional dot and blanks; the result   *)
(* is stripped.                                                            *)
IVXChars == {"I", "V", "X", "i", "v", "x"}
DigitChars == {"0", "1", "2", "3", "4", "5", "6", "7", "8", "9"}
LetterChars == {UpperChars[i] : i \in 1..Len(UpperChars)}
                 \cup {LowerChars[i] : i \in 1..Len(LowerChars)}
SpaceChars == {" "}

RECURSIVE Span(_, _, _)
(* how many characters of s from position p on belong to the class *)
Span(s, p, class) ==
    IF p <= Len(s) /\ s[p] \in class THEN 1 + Span(s, p + 1, class) ELSE 0

OptionalDot(s, p) == IF p <= Len(s) /\ s[p] = "." THEN p + 1 ELSE p

StripOutlineNumber(s) ==
    LET k == Span(s, 1, IVXChars)
        p1 == k + 1
        d == IF p1 <= Len(s) /\ s[p1] = "." THEN Span(s, p1 + 1, DigitChars) ELSE 0
        p2 == IF d > 0
              THEN p1 + 1 + d + Span(s, p1 + 1 + d, LetterChars)
              ELSE p1
        p3 == OptionalDot(s, p2)
        p4 == p3 + Span(s, p3, SpaceChars)
    IN  IF k = 0 THEN s ELSE SubSeq(s, p4, Len(s))

StripOutlineLetter(s) ==
    IF Len(s) >= 1 /\ s[1] \in LetterChars
    THEN LET p == OptionalDot(s, 2)
         IN  SubSeq(s, p + Span(s, p, SpaceChars), Len(s))
    ELSE s

RECURSIVE RStrip(_)
RStrip(s) ==
    IF Len(s) > 0 /\ s[Len(s)] \in SpaceChars
    THEN RStrip(SubSeq(s, 1, Len(s) - 1)) ELSE s

Strip(s) == RStrip(SubSeq(s, 1 + Span(s, 1, SpaceChars), Len(s)))

SectorClean(s) == Strip(StripOutlineLetter(StripOutlineNumber(s)))

(* lines 287-319: the insight sentences, each [kind, text, a, b] with the  *)
(* numbers the sentence prints.                                            *)
Insight(kind, text, a, b) == [kind |-> kind, text |-> text, a |-> a, b |-> b]

(* The trend classes with the bounds 100 and -100 counted as trends. *)
TrendInsightsInclusive(change) ==
    IF RLeq(R(100), change)
    THEN <<IF RLeq(R(1000), RAbs(change))
           THEN Insight("trend", <<"strong growth trend, B USD/year">>,
                        Round1(RDiv(change, R(1000))), 0)
           ELSE Insight("trend", <<"positive growth trend, M USD/year">>,
                        Round1(change), 0),
           Insight("note", <<"Continued investment likely reflects development priorities">>, 0, 0)>>
    ELSE IF RLeq(change, R(-100))
    THEN <<IF RLeq(R(1000), RAbs(change))
           THEN Insight("trend", <<"declining trend, B USD/year">>,
                        Round1(RDiv(change, R(1000))), 0)
           ELSE Insight("trend", <<"declining trend, M USD/year">>,
                        Round1(change), 0),
           Insight("note", <<"May indicate graduation from aid dependency or shifting priorities">>, 0, 0)>>
    ELSE <<Insight("trend", <<"remain relatively stable">>, 0, 0)>>

(* lines 290-306: the trend sentence and the note that follows it *)
TrendInsights(change) ==
    IF RLess(R(100), change)
    THEN <<IF RLeq(R(1000), RAbs(change))
           THEN Insight("trend", <<"strong growth trend, B USD/year">>,
                        Round1(RDiv(change, R(1000))), 0)
           ELSE Insight("trend", <<"positive growth trend, M USD/year">>,
                        Round1(change), 0),
           Insight("note", <<"Continued investment likely reflects development priorities">>, 0, 0)>>
    ELSE IF RLess(change, R(-100))
    THEN <<IF RLeq(R(1000), RAbs(change))
           THEN Insight("trend", <<"declining trend, B USD/year">>,
                        Round1(RDiv(change, R(1000))), 0)
           ELSE Insight("trend", <<"declining trend, M USD/year">>,
                        Round1(change), 0),
           Insight("note", <<"May indicate graduation from aid dependency or shifting priorities">>, 0, 0)>>
    ELSE <<Insight("trend", <<"remain relatively stable">>, 0, 0)>>

(* The sector sentence decided without lowering the parameter. *)
InsightsCaseSensitive(r, h, accuracy) ==
    LET amounts == AmountsOf(h)
        level == accuracy.val \div 10
    IN  TrendInsights(AvgAnnualChange(amounts))
        \o <<Insight("confidence", <<"Model confidence">>, level, 100 - level),
             Insight("base", <<"Base amount">>,
                     Round1(R(amounts[Len(amounts)])), MaxOf(YearsOf(h)))>>
        \o (IF Truthy(r.sector) /\ r.sector.val # StrAll
            THEN <<Insight("sector", SectorClean(r.sector.val), 0, 0)>>
            ELSE <<>>)

(* lines 287-319: the insights list *)
Insights(r, h, accuracy) ==
    LET amounts == AmountsOf(h)
        level == accuracy.val \div 10
    IN  TrendInsights(AvgAnnualChange(amounts))
        \o <<Insight("confidence", <<"Model confidence">>, level, 100 - level),
             Insight("base", <<"Base amount">>,
                     Round1(R(amounts[Len(amounts)])), MaxOf(YearsOf(h)))>>
        \o (IF Truthy(r.sector) /\ Lower(r.sector.val) # StrAll
            THEN <<Insight("sector", SectorClean(r.sector.val), 0, 0)>>
            ELSE <<>>)

(***************************************************************************)
(* The regression library (scikit-learn with random_state=42) is an        *)
(* oracle: what fit / r2_score did and what predict did at each step.      *)
(* lib either leaves the outcome open, so that every outcome is explored   *)
(* at each call, or pins it to one deterministic behaviour.                *)
(***************************************************************************)
FitOutcomes ==
    {[raises |-> TRUE, r2 |-> NaN], [raises |-> FALSE, r2 |-> NaN],
     [raises |-> FALSE, r2 |-> Num(-500)], [raises |-> FALSE, r2 |-> Num(900)]}
NoFit == [raises |-> FALSE, r2 |-> NaN]

OpenLib == [pinned |-> FALSE, fit |-> NoFit, step |-> <<>>]
(* A regressor constructed without random_state. *)
FitUnseeded(l, f) == TRUE

(* random_state=42: the same fit on the same data scores the same *)
FitAllowed(l, f) == IF l.pinned THEN f = l.fit ELSE TRUE
StepsAllowed(l, o) ==
    IF l.pinned THEN \A i \in DOMAIN o : o[i] = l.step[i] ELSE TRUE

(***************************************************************************)
(* generate_shap_explanations: the three literal explanation lists,        *)
(* impacts in units of 0.00001.                                            *)
(***************************************************************************)
Explanation(feature, impact, category) ==
    [feature |-> feature, impact |-> impact, category |-> category]

ShortTermExplanations ==
    <<Explanation("Historical Trend", 131947, "temporal"),
      Explanation("Aid Volatility", -8732, "stability"),
      Explanation("Recent Growth", 1368, "momentum"),
      Explanation("Development Stage", 20000, "structural"),
      Explanation("Economic Cycle", 14266, "external"),
      Explanation("Political Stability", 6507, "governance")>>

MediumTermExplanations ==
    <<Explanation("Development Stage", 145000, "structural"),
      Explanation("Historical Trend", 95000, "temporal"),
      Explanation("Economic Cycle", 28000, "external"),
      Explanation("Political Stability", 18000, "governance"),
      Explanation("Regional Context", 12000, "regional"),
      Explanation("Aid Volatility", -3000, "stability")>>

LongTermExplanations ==
    <<Explanation("Development Stage", 182000, "structural"),
      Explanation("Climate Impact", 67000, "environmental"),
      Explanation("Economic Transformation", 45000, "economic"),
      Explanation("Demographic Trends", 32000, "demographic"),
      Explanation("Historical Trend", 15000, "temporal"),
      Explanation("Global Governance", 8000, "governance")>>

(* The buckets cut one year early. *)
ExplanationsCutEarly(years) ==
    IF years < 3 THEN ShortTermExplanations
    ELSE IF years < 5 THEN MediumTermExplanations
    ELSE LongTermExplanations

(* lines 472-592 *)
ExplanationsFor(years) ==
    IF years <= 3 THEN ShortTermExplanations
    ELSE IF years <= 5 THEN MediumTermExplanations
    ELSE LongTermExplanations

RECURSIVE SumSeq(_)
SumSeq(q) == IF q = <<>> THEN 0 ELSE q[1] + SumSeq(Tail(q))

(* np.mean *)
Mean(q) == Frac(SumSeq(q), Len(q))

DefaultPrediction == 25000

(* lines 447-453: the forecast succeeded *)
ShapFromForecast(result, hist) ==
    LET final == IF result.predictions # <<>>
                 THEN Frac(result.predictions[Len(result.predictions)].predicted, 100)
                 ELSE R(DefaultPrediction)
        amounts == IF hist # <<>> THEN AmountsOf(hist) ELSE <<25000>>
    IN  [status |-> 200, model_prediction |-> final, base_value |-> Mean(amounts)]

(* lines 455-470: the forecast raised, HTTPException included *)
ShapFromHistory(hist) ==
    IF Len(hist) >= 3
    THEN LET amounts == AmountsOf(hist)
             n == Len(amounts)
             recent_trend == Frac(amounts[n] - amounts[n - 2], 2)
         IN  [status |-> 200,
              model_prediction |-> RAdd(R(amounts[n]), recent_trend),
              base_value |-> Mean(amounts)]
    ELSE [status |-> 404, model_prediction |-> R(0), base_value |-> R(0)]

(***************************************************************************)
(* generate_forecast: the feature frame, lines 176-191, and the row handed *)
(* to the model at a forecast step, lines 241-244.  A cell is a float that *)
(* may be NaN or infinite; volatility carries the variance (the square of  *)
(* the rolling std); a cyclical cell carries its angle in turns.           *)
(***************************************************************************)
FNum(x) == [kind |-> "num", val |-> x]
FNaN == [kind |-> "nan", val |-> R(0)]
FInf == [kind |-> "inf", val |-> R(0)]

(* A column with every cell computed. *)
Column(col) == SubSeq(col, 1, Len(col))

(* Series.shift(d) *)
Shift(col, d) == Column([k \in 1..Len(col) |-> IF k > d THEN col[k - d] ELSE FNaN])

(* Series.diff() *)
Diff(amounts) ==
    Column([k \in 1..Len(amounts) |->
        IF k > 1 THEN FNum(R(amounts[k] - amounts[k - 1])) ELSE FNaN])

(* Series.pct_change(): x / previous - 1 *)
PctChange(amounts) ==
    Column([k \in 1..Len(amounts) |->
        IF k = 1 THEN FNaN
        ELSE IF amounts[k - 1] # 0
        THEN FNum(Frac(amounts[k] - amounts[k - 1], amounts[k - 1]))
        ELSE IF amounts[k] = 0 THEN FNaN ELSE FInf])

(* The window of rolling(window=3, min_periods=1) ending at row k. *)
Window3(amounts, k) == SubSeq(amounts, IF k > 2 THEN k - 2 ELSE 1, k)

(* rolling(...).mean() *)
RollingMean3(amounts) ==
    Column([k \in 1..Len(amounts) |-> FNum(Mean(Window3(amounts, k)))])

(* rolling(...).std(), squared: the sample variance, NaN on one sample *)
RollingVar3(amounts) ==
    Column([k \in 1..Len(amounts) |->
        LET w == Window3(amounts, k)
            c == Len(w)
            sq == SumSeq([j \in 1..c |-> (c * w[j] - SumSeq(w)) * (c * w[j] - SumSeq(w))])
        IN  IF c = 1 THEN FNaN ELSE FNum(Frac(sq, c * c * (c - 1)))])

(* Series.fillna(0) *)
FillNa0(col) ==
    Column([k \in 1..Len(col) |-> IF col[k].kind = "nan" THEN FNum(R(0)) ELSE col[k]])

(* bfill(): the next valid cell below, if any *)
BFill(col) ==
    Column([k \in 1..Len(col) |->
        IF \E j \in k..Len(col) : col[j].kind # "nan"
        THEN col[CHOOSE j \in k..Len(col) :
                    /\ col[j].kind # "nan"
                    /\ \A m \in k..(j - 1) : col[m].kind = "nan"]
        ELSE col[k]])

(* ffill(): the last valid cell above, if any *)
FFill(col) ==
    Column([k \in 1..Len(col) |->
        IF \E j \in 1..k : col[j].kind # "nan"
        THEN col[CHOOSE j \in 1..k :
                    /\ col[j].kind # "nan"
                    /\ \A m \in (j + 1)..k : col[m].kind = "nan"]
        ELSE col[k]])

CycleDivisor == 8

(* np.sin / np.cos of 2 * pi * idx / max(len(df), 8) *)
Cycle(fn, idx, n) ==
    [fn |-> fn, turns |-> Frac(idx, IF n > CycleDivisor THEN n ELSE CycleDivisor)]

(* lines 177-191: df after bfill().ffill() *)
Frame(amounts) ==
    LET n == Len(amounts)
        amount == Column([k \in 1..n |-> FNum(R(amounts[k]))])
        lag1 == FFill(BFill(Shift(amount, 1)))
        lag2 == FFill(BFill(Shift(amount, 2)))
        trend == FFill(BFill(Diff(amounts)))
        rolling_mean_3 == FFill(BFill(RollingMean3(amounts)))
        volatility == FFill(BFill(FillNa0(RollingVar3(amounts))))
        growth_rate == FFill(BFill(FillNa0(PctChange(amounts))))
    IN  Column([k \in 1..n |->
            [year_idx |-> k - 1,
             lag1 |-> lag1[k],
             lag2 |-> lag2[k],
             trend |-> trend[k],
             rolling_mean_3 |-> rolling_mean_3[k],
             volatility |-> volatility[k],
             growth_rate |-> growth_rate[k],
             year_sin |-> Cycle("sin", k - 1, n),
             year_cos |-> Cycle("cos", k - 1, n)]])

(* The last row with only its index moved. *)
NewFeaturesStale(frame, i) ==
    [frame[Len(frame)] EXCEPT !.year_idx = Len(frame) + i - 1]

(* lines 241-244: the last row, its index and cyclical cells overwritten *)
NewFeatures(frame, i) ==
    [frame[Len(frame)] EXCEPT
        !.year_idx = Len(frame) + i - 1,
        !.year_sin = Cycle("sin", Len(frame) + i - 1, Len(frame)),
        !.year_cos = Cycle("cos", Len(frame) + i - 1, Len(frame))]

(***************************************************************************)
(* State.                                                                  *)
(***************************************************************************)
VARIABLES
    store,            \* the aid_records rows
    lib,              \* the regression library oracle
    pc,               \* position of the generate_forecast call
    caller,           \* "client" or "shap": who awaits generate_forecast
    req,              \* the ForecastRequest
    historical_data,  \* rows fetched by the query
    model,            \* the regressor constructed
    use_ml,
    model_accuracy,
    fit_outcome,      \* what fit / r2_score did in this call
    step_outcomes,    \* what predict did at each step of this call
    resp,             \* what generate_forecast returned or raised
    df,               \* the feature frame of the call
    new_features,     \* the rows handed to the model, one for each step
    shap_pc,          \* position of the generate_shap_explanations call
    shap_req,         \* the SHAPRequest
    shap_hist,        \* historical_data of generate_shap_explanations
    shap_db_failed,   \* its query raised
    shap_resp,        \* what generate_shap_explanations returned or raised
    first,            \* the first forecast call completed, and its response
    chat_history,     \* chat.py: session id -> messages of the session
    chat_resp,        \* what the last chat_with_ai call returned or raised
    aid_records,      \* data_loader.py: the rows of the aid_records table
    entities,         \* the rows of the countries, donors and sectors tables
    data_file,        \* the file DATA_FILE names
    loaders           \* the load_real_aid_data invocations

locals == <<historical_data, model, use_ml, model_accuracy, fit_outcome,
            step_outcomes, resp, df, new_features>>
fvars == <<pc, caller, req, locals>>
svars == <<shap_pc, shap_req, shap_hist, shap_db_failed, shap_resp>>
cvars == <<chat_history, chat_resp>>
lvars == <<aid_records, entities, data_file, loaders>>
vars == <<store, lib, fvars, svars, first, cvars, lvars>>

NoRequest == [sector |-> NoneStr, years |-> 0, model |-> "hybrid"]
NoModel == [kind |-> "none", n_estimators |-> 0, learning_rate |-> 0,
            max_depth |-> 0, expected |-> 0]
NoResponse == [status |-> 0, predictions |-> <<>>,
               accuracy |-> AccuracyMetrics("hybrid", Num(0), FALSE),
               insights |-> <<>>]
HttpError(code) == [NoResponse EXCEPT !.status = code]
NoShapResponse == [status |-> 0, explanations |-> <<>>,
                   model_prediction |-> R(0), base_value |-> R(0),
                   sector |-> NoneStr]
NoFirst == [set |-> FALSE, req |-> NoRequest, resp |-> NoResponse,
            answered |-> FALSE, others |-> FALSE]

(* No forecast call in progress: the locals of a call do not exist. *)
Idle ==
    /\ pc = "idle"
    /\ caller = "client"
    /\ req = NoRequest
    /\ historical_data = <<>>
    /\ model = NoModel
    /\ use_ml = FALSE
    /\ model_accuracy = Num(0)
    /\ fit_outcome = NoFit
    /\ step_outcomes = <<>>
    /\ resp = NoResponse
    /\ df = <<>>
    /\ new_features = <<>>

ShapIdle ==
    /\ shap_pc = "idle"
    /\ shap_req = NoRequest
    /\ shap_hist = <<>>
    /\ shap_db_failed = FALSE
    /\ shap_resp = NoShapResponse

(* The requests enumerated: the three model identifiers, horizons up to a  *)
(* bound, and the long horizon on which float ** int leaves the double     *)
(* range.                                                                  *)
LongHorizon == DBL_MAX_EXP
Sectors == {NoneStr, Str(<<>>), Str(StrAll), Str(StrALL), Str(StrHealth)}
Requests(sectors, years) ==
    [sector : sectors, years : years, model : Models]

(* The long horizon is enumerated where the loop's outcome is decided      *)
(* without evaluating the power: the trend path (two points, or a library  *)
(* whose fit raises) with a factor of magnitude at least 2.                *)
Enumerated(rows, r) ==
    r.years = LongHorizon =>
        LET h == ForecastQuery(rows, r)
        IN  /\ Len(h) >= 2
            /\ Len(h) = 2 \/ (lib.pinned /\ lib.fit.raises)
            /\ h[Len(h)].total_aid > 0
            /\ PowOverflows(GrowthFactor(AmountsOf(h)), r.years)

(***************************************************************************)
(* chat.py: the module-level chat_history and the handlers that write it.  *)
(***************************************************************************)
MaxMessages == 2
MaxChatMessages == 4
Sessions == {"s1"}
ChatSessions == {"s1", "s2"}

(* chat_history = {} *)
NoChat == [sid \in {} |-> <<>>]

(* ChatRequest.role: Optional[str] = "user" *)
NoRole == [some |-> FALSE, val |-> ""]
Role(r) == [some |-> TRUE, val |-> r]
ChatRoles == {Role("user"), Role("assistant"), NoRole}

(* A call: the request, whether OPENAI_API_KEY is set, and what the        *)
(* completion call does when it is made.                                   *)
ChatInputs(sessions) ==
    [sessionId : sessions, role : ChatRoles, key : BOOLEAN,
     llm : {"reply", "raise"}]

FixedNotice == "I need an OpenAI API key to provide AI assistance."
Difficulties == "I'm experiencing technical difficulties."

NoChatResponse == [status |-> 0, response |-> "", called |-> FALSE]

ChatIdle == chat_history = NoChat /\ chat_resp = NoChatResponse

(* chat_with_ai, lines 335-453.  ChatMessageCreate (role: str) is built    *)
(* outside the try and rejects a null role.  Inside it the session list is *)
(* created if missing and the user message appended; without a key         *)
(* response stays None, so the metadata of line 424 (response.usage)       *)
(* raises like a failed completion call, and the handler of lines 434-453  *)
(* appends and returns the error report.                                   *)
ChatWithAi(inputs, cap) ==
    /\ \E c \in inputs :
         LET before == IF c.sessionId \in DOMAIN chat_history
                       THEN chat_history[c.sessionId] ELSE <<>>
             raised == ~c.key \/ c.llm = "raise"
             answer == IF raised THEN Difficulties ELSE "reply"
             after == before \o <<[role |-> "user", content |-> "message"],
                                  [role |-> "assistant", content |-> answer]>>
         IN  IF ~c.role.some
             THEN /\ chat_history' = chat_history
                  /\ chat_resp' = [status |-> 500, response |-> "",
                                   called |-> FALSE]
             ELSE /\ Len(after) <= cap
                  /\ chat_history' =
                       [s \in DOMAIN chat_history \cup {c.sessionId} |->
                          IF s = c.sessionId THEN after ELSE chat_history[s]]
                  /\ chat_resp' = [status |-> 200, response |-> answer,
                                   called |-> c.key]
    /\ UNCHANGED <<store, lib, fvars, svars, first, lvars>>

(* clear_chat_history, lines 473-478 *)
ClearChatHistory(sessions) ==
    /\ \E sid \in sessions :
         chat_history' =
             [s \in DOMAIN chat_history \ {sid} |-> chat_history[s]]
    /\ UNCHANGED <<store, lib, fvars, svars, first, chat_resp, lvars>>

(***************************************************************************)
(* data_loader.py: load_real_aid_data and the tables it writes.  The       *)
(* aid_records table is kept as counts: the rows that were there before    *)
(* any load, and for each chunk of the file how many copies of its records *)
(* are stored.                                                             *)
(***************************************************************************)
MaxChunks == 2

(* main.py: the startup thread (lines 22-48) and the background task of    *)
(* /api/admin/reload-data (lines 112-119), each with a session of its own. *)
Loaders == {"startup", "reload"}

(* "if it's sample data (< 1000 records)" *)
RealDataThreshold == 1000

EmptyTable == [existing |-> 0, loaded |-> <<>>]
NoFile == [exists |-> FALSE, chunks |-> <<>>]

(* The locals of an invocation: existing_count, the chunk being processed, *)
(* processed_countries / _donors / _sectors (one set of codes),            *)
(* countries_to_add / donors_to_add / sectors_to_add (one set), the chunks *)
(* in insert_failures, those the database failed for a reason of its own,  *)
(* and the return taken.                                                   *)
NotLoading == [pc |-> "idle", existing_count |-> 0, chunk |-> 0,
               processed |-> {}, to_add |-> {}, failures |-> {},
               faults |-> {}, exit |-> "none"]

LoaderIdle ==
    /\ aid_records = EmptyTable
    /\ entities = {}
    /\ data_file = NoFile
    /\ loaders = [p \in Loaders |-> NotLoading]

(* A chunk of the file: the number of its rows that pass validation (at    *)
(* most chunk_size = 2000) and the codes they reference.                   *)
ChunkKinds == {[rows |-> 600, refs |-> {"e1"}],
               [rows |-> 2000, refs |-> {"e1", "e2"}]}
LoaderFiles ==
    {NoFile} \cup
    {[exists |-> TRUE, chunks |-> c] :
        c \in UNION {[1..k -> ChunkKinds] : k \in 1..MaxChunks}}

(* The rows before any load: none, sample data, real data. *)
ExistingCounts == {0, 5, RealDataThreshold}

RECURSIVE LoadedRows(_, _)
LoadedRows(loaded, chunks) ==
    IF loaded = <<>> THEN 0
    ELSE loaded[1] * chunks[1].rows + LoadedRows(Tail(loaded), Tail(chunks))

(* db.query(AidRecord).count() *)
Count == aid_records.existing + LoadedRows(aid_records.loaded, data_file.chunks)

(* load_real_aid_data is called: main.py lines 35 and 116 *)
StartLoad(p) ==
    /\ loaders[p].pc = "idle"
    /\ loaders' = [loaders EXCEPT ![p] = [NotLoading EXCEPT !.pc = "check"]]
    /\ UNCHANGED <<aid_records, entities, data_file>>

(* lines 20-29: the count, and the return when real data is assumed *)
CountRecords(p) ==
    /\ loaders[p].pc = "check"
    /\ loaders' = [loaders EXCEPT ![p] =
                     IF Count < RealDataThreshold
                     THEN [@ EXCEPT !.existing_count = Count, !.pc = "delete"]
                     ELSE [@ EXCEPT !.existing_count = Count, !.pc = "done",
                                    !.exit = "existing"]]
    /\ UNCHANGED <<aid_records, entities, data_file>>

(* lines 23-24: DELETE FROM aid_records and the commit *)
ClearSample(p) ==
    /\ loaders[p].pc = "delete"
    /\ aid_records' = [existing |-> 0,
                       loaded |-> [k \in DOMAIN aid_records.loaded |-> 0]]
    /\ loaders' = [loaders EXCEPT ![p].pc = "file"]
    /\ UNCHANGED <<entities, data_file>>

(* lines 32-57: the file is looked up; without it the load is skipped *)
FindFile(p) ==
    /\ loaders[p].pc = "file"
    /\ loaders' = [loaders EXCEPT ![p] =
                     IF data_file.exists
                     THEN [@ EXCEPT !.pc = "rows", !.chunk = 1]
                     ELSE [@ EXCEPT !.pc = "done", !.exit = "no_file"]]
    /\ UNCHANGED <<aid_records, entities, data_file>>

(* lines 62-186: the rows of the chunk; a code not yet in the processed    *)
(* set is queued for insertion and added to the set.                       *)
ProcessRows(p) ==
    /\ loaders[p].pc = "rows"
    /\ LET l == loaders[p]
           refs == data_file.chunks[l.chunk].refs
       IN  loaders' = [loaders EXCEPT ![p] =
                         [l EXCEPT !.to_add = refs \ l.processed,
                                   !.processed = l.processed \cup refs,
                                   !.pc = "insert"]]
    /\ UNCHANGED <<aid_records, entities, data_file>>

(* lines 188-232: the inserts of the chunk and the commit, on PostgreSQL:  *)
(* a code already stored (primary key) or a record whose code is stored    *)
(* nowhere (foreign key) makes the insert raise, as may the database for   *)
(* a reason of its own; the handler rolls the chunk back and continues.    *)
InsertChunk(p) ==
    /\ loaders[p].pc = "insert"
    /\ \E fault \in BOOLEAN :
         LET l == loaders[p]
             k == l.chunk
             refs == data_file.chunks[k].refs
             duplicate == l.to_add \cap entities # {}
             dangling == ~(refs \subseteq (entities \cup l.to_add))
             fails == fault \/ duplicate \/ dangling
             next == IF k < Len(data_file.chunks)
                     THEN [l EXCEPT !.pc = "rows", !.chunk = k + 1,
                                    !.to_add = {}]
                     ELSE [l EXCEPT !.pc = "done", !.exit = "loaded",
                                    !.to_add = {}]
         IN  IF fails
             THEN /\ loaders' = [loaders EXCEPT ![p] =
                       [next EXCEPT !.failures = @ \cup {k},
                                    !.faults = @ \cup (IF fault THEN {k} ELSE {})]]
                  /\ UNCHANGED <<aid_records, entities>>
             ELSE /\ loaders' = [loaders EXCEPT ![p] = next]
                  /\ entities' = entities \cup l.to_add
                  /\ aid_records' = [aid_records EXCEPT !.loaded[k] = @ + 1]
    /\ UNCHANGED data_file

(* The steps of the invocations ps; nothing else of the program moves. *)
Load(ps) ==
    /\ \E p \in ps :
          \/ StartLoad(p)
          \/ CountRecords(p)
          \/ ClearSample(p)
          \/ FindFile(p)
          \/ ProcessRows(p)
          \/ InsertChunk(p)
    /\ UNCHANGED <<store, lib, fvars, svars, first, cvars>>

(***************************************************************************)
(* generate_forecast, lines 129-369.                                       *)
(***************************************************************************)
(* lines 130-153: the request arrives, the query text is built *)
Call(r, who) ==
    /\ pc = "idle"
    /\ pc' = "query"
    /\ caller' = who
    /\ req' = r
    /\ UNCHANGED locals

(* lines 156-164: db.execute; on an error, rollback and go to the retry *)
ExecuteQuery ==
    /\ pc = "query"
    /\ \/ /\ historical_data' = ForecastQuery(store, req)
          /\ pc' = "check"
       \/ /\ historical_data' = <<>>
          /\ pc' = "retry"
    /\ UNCHANGED <<store, lib, cvars, lvars, caller, req, model, use_ml, model_accuracy,
                   fit_outcome, step_outcomes, resp, df, new_features, svars,
                   first>>

(* The retry whose failure falls through to the data checks. *)
RetryNotFound ==
    /\ pc = "retry"
    /\ \/ /\ historical_data' = ForecastQuery(store, req)
          /\ pc' = "check"
          /\ resp' = resp
       \/ /\ historical_data' = <<>>
          /\ pc' = "done"
          /\ resp' = HttpError(404)
    /\ UNCHANGED <<store, lib, cvars, lvars, caller, req, model, use_ml, model_accuracy,
                   fit_outcome, step_outcomes, df, new_features, svars, first>>

(* lines 162-164 and 367-369: the second db.execute; its error is a 500 *)
RetryQuery ==
    /\ pc = "retry"
    /\ \/ /\ historical_data' = ForecastQuery(store, req)
          /\ pc' = "check"
          /\ resp' = resp
       \/ /\ historical_data' = <<>>
          /\ pc' = "done"
          /\ resp' = HttpError(500)
    /\ UNCHANGED <<store, lib, cvars, lvars, caller, req, model, use_ml, model_accuracy,
                   fit_outcome, step_outcomes, df, new_features, svars, first>>

(* The two data checks in the other order. *)
LengthCheckFirst(h) ==
    IF Len(AmountsOf(h)) < 2 THEN 400
    ELSE IF h = <<>> THEN 404
    ELSE 0

(* lines 166-174: the status the two data checks raise, 0 when they pass *)
HistoryCheck(h) ==
    IF h = <<>> THEN 404
    ELSE IF Len(AmountsOf(h)) < 2 THEN 400
    ELSE 0

(* lines 166-207: the data checks, the features, the model choice *)
CheckHistory ==
    /\ pc = "check"
    /\ IF HistoryCheck(historical_data) # 0
       THEN /\ resp' = HttpError(HistoryCheck(historical_data))
            /\ pc' = "done"
            /\ UNCHANGED <<model, use_ml, model_accuracy, df>>
       ELSE /\ df' = Frame(AmountsOf(historical_data))
            /\ model_accuracy' = Num(DefaultAccuracy)
            /\ model' = ChooseModel(req.model, Len(historical_data))
            /\ use_ml' = UseMl(Len(historical_data))
            /\ pc' = "train"
            /\ resp' = resp
    /\ UNCHANGED <<store, lib, cvars, lvars, caller, req, historical_data, fit_outcome,
                   step_outcomes, new_features, svars, first>>

(* lines 209-225: fit and score, or the failure handler *)
Train ==
    /\ pc = "train"
    /\ IF use_ml
       THEN \E f \in FitOutcomes :
              /\ FitAllowed(lib, f)
              /\ fit_outcome' = f
              /\ IF f.raises
                 THEN /\ use_ml' = FALSE
                      /\ model_accuracy' = Num(FailedAccuracy)
                 ELSE /\ use_ml' = use_ml
                      /\ model_accuracy' = ClampAccuracy(model.expected, f.r2)
       ELSE UNCHANGED <<fit_outcome, use_ml, model_accuracy>>
    /\ pc' = "predict"
    /\ UNCHANGED <<store, lib, cvars, lvars, caller, req, historical_data, model,
                   step_outcomes, resp, df, new_features, svars, first>>

(* lines 356-363: the ForecastResult; int(model_accuracy) of line 309       *)
(* raises on NaN, which the outer handler turns into a 500.               *)
ForecastResult(r, h, ml, accuracy, points) ==
    IF accuracy.nan THEN HttpError(500)
    ELSE [status |-> 200,
          predictions |-> points,
          accuracy |-> AccuracyMetrics(r.model, accuracy, ml),
          insights |-> Insights(r, h, accuracy)]

(* lines 227-369: the loop over the horizon, the insights, the result.  An *)
(* error raised outside the loop's own handler ends the request with 500.  *)
Predict ==
    /\ pc = "predict"
    /\ IF ~use_ml /\ historical_data[Len(historical_data)].total_aid > 0
          /\ PowOverflows(GrowthFactor(AmountsOf(historical_data)), req.years)
       THEN /\ resp' = HttpError(500)
            /\ UNCHANGED <<step_outcomes, new_features>>
       ELSE \E o \in [1..(IF use_ml THEN req.years ELSE 0) -> StepKinds] :
              /\ StepsAllowed(lib, o)
              /\ step_outcomes' = o
              /\ new_features' = [i \in DOMAIN o |-> NewFeatures(df, i)]
              /\ resp' = ForecastResult(req, historical_data, use_ml,
                           model_accuracy,
                           [i \in 1..req.years |->
                              PredictionAt(i, historical_data, use_ml,
                                           IF use_ml THEN o[i] ELSE "none",
                                           model_accuracy)])
    /\ pc' = "done"
    /\ UNCHANGED <<store, lib, cvars, lvars, caller, req, historical_data, model, use_ml,
                   model_accuracy, fit_outcome, df, svars, first>>

(* Both attempts of the query raised: lines 162-164 and 367-369. *)
DatabaseFailed == resp.status = 500 /\ historical_data = <<>>

(* The fitted model kept after the request. *)
KeepModel ==
    /\ pc' = "idle"
    /\ caller' = "client"
    /\ req' = NoRequest
    /\ historical_data' = <<>>
    /\ model' = model
    /\ use_ml' = FALSE
    /\ model_accuracy' = Num(0)
    /\ fit_outcome' = NoFit
    /\ step_outcomes' = <<>>
    /\ resp' = NoResponse
    /\ df' = <<>>
    /\ new_features' = <<>>

ForgetCall ==
    /\ pc' = "idle"
    /\ caller' = "client"
    /\ req' = NoRequest
    /\ historical_data' = <<>>
    /\ model' = NoModel
    /\ use_ml' = FALSE
    /\ model_accuracy' = Num(0)
    /\ fit_outcome' = NoFit
    /\ step_outcomes' = <<>>
    /\ resp' = NoResponse
    /\ df' = <<>>
    /\ new_features' = <<>>

(* The response leaves the handler; its locals are gone. *)
Return ==
    /\ pc = "done"
    /\ caller = "client"
    /\ ForgetCall
    /\ UNCHANGED <<store, lib, cvars, lvars, svars, first>>

(* The same, remembering the first call completed, what it answered, and   *)
(* whether a call with another request has completed since.                *)
ReturnObserved ==
    /\ pc = "done"
    /\ caller = "client"
    /\ first' = IF ~first.set
                THEN [set |-> TRUE, req |-> req, resp |-> resp,
                      answered |-> ~DatabaseFailed, others |-> FALSE]
                ELSE IF req # first.req
                THEN [first EXCEPT !.others = TRUE]
                ELSE first
    /\ ForgetCall
    /\ UNCHANGED <<store, lib, cvars, lvars, svars>>

(* POST /forecast *)
Forecast(requests) ==
    /\ shap_pc = "idle"
    /\ \E r \in requests :
         /\ Enumerated(store, r)
         /\ Call(r, "client")
    /\ UNCHANGED <<store, lib, cvars, lvars, svars, first>>

(***************************************************************************)
(* generate_shap_explanations, lines 390-629.                              *)
(***************************************************************************)
(* POST /shap-explanations *)
Shap(requests) ==
    /\ shap_pc = "idle"
    /\ pc = "idle"
    /\ \E r \in requests :
         shap_req' = r
    /\ shap_pc' = "query"
    /\ UNCHANGED <<store, lib, cvars, lvars, fvars, shap_hist, shap_db_failed, shap_resp, first>>

(* lines 396-432: its own query; a database error leaves the list empty *)
ShapExecuteQuery ==
    /\ shap_pc = "query"
    /\ \/ /\ shap_hist' = ShapQuery(store, shap_req)
          /\ shap_db_failed' = FALSE
       \/ /\ shap_hist' = <<>>
          /\ shap_db_failed' = TRUE
    /\ shap_pc' = "forecast"
    /\ UNCHANGED <<store, lib, cvars, lvars, fvars, shap_req, shap_resp, first>>

(* lines 434-445: await generate_forecast(forecast_request, db) *)
ShapCallForecast ==
    /\ shap_pc = "forecast"
    /\ Call(shap_req, "shap")
    /\ shap_pc' = "await"
    /\ UNCHANGED <<store, lib, cvars, lvars, shap_req, shap_hist, shap_db_failed, shap_resp,
                   first>>

FallbackBaseValue == 20000

(* The outer handler raising instead of answering. *)
ShapUnrecovered(r) == [NoShapResponse EXCEPT !.status = 500]

(* lines 607-629: the minimal result of the outer handler *)
ShapRecovered(r) ==
    [status |-> 200,
     explanations |-> <<Explanation("Historical Trend", 120000, "temporal"),
                        Explanation("Development Needs", 80000, "structural")>>,
     model_prediction |-> R(DefaultPrediction),
     base_value |-> R(FallbackBaseValue),
     sector |-> r.sector]

(* lines 447-603: the SHAPResult, or the 404 of line 470 *)
ShapResult(r, result, hist) ==
    LET v == IF result.status = 200
             THEN ShapFromForecast(result, hist)
             ELSE ShapFromHistory(hist)
    IN  IF v.status = 200
        THEN [status |-> 200,
              explanations |-> ExplanationsFor(r.years),
              model_prediction |-> v.model_prediction,
              base_value |-> v.base_value,
              sector |-> r.sector]
        ELSE [NoShapResponse EXCEPT !.status = v.status]

(* lines 447-629: the forecast came back or raised; the result is derived, *)
(* or a non-HTTP error raised on the way is answered by the outer handler. *)
ShapFinish ==
    /\ shap_pc = "await"
    /\ pc = "done"
    /\ caller = "shap"
    /\ \/ /\ shap_resp' = ShapResult(shap_req, resp, shap_hist)
          /\ shap_pc' = "done"
       \/ /\ shap_resp' = ShapRecovered(shap_req)
          /\ shap_pc' = "recovered"
    /\ UNCHANGED <<store, lib, cvars, lvars, fvars, shap_req, shap_hist, shap_db_failed, first>>

(* The response leaves the handler. *)
ShapReturn ==
    /\ shap_pc \in {"done", "recovered"}
    /\ shap_pc' = "idle"
    /\ shap_req' = NoRequest
    /\ shap_hist' = <<>>
    /\ shap_db_failed' = FALSE
    /\ shap_resp' = NoShapResponse
    /\ ForgetCall
    /\ UNCHANGED <<store, lib, cvars, lvars, first>>

(***************************************************************************)
(* Spec: the forecast endpoint over every store of one sector with up to   *)
(* MaxLen yearly rows, the library left open.                              *)
(***************************************************************************)
Init ==
    /\ store \in {RowsOf(StrHealth, a) : a \in SeqsUpTo(Amounts, MaxLen)}
    /\ lib = OpenLib
    /\ Idle
    /\ ShapIdle
    /\ first = NoFirst
    /\ ChatIdle
    /\ LoaderIdle

Next ==
    \/ Forecast(Requests({NoneStr}, 1..MaxYears \cup {LongHorizon}))
    \/ ExecuteQuery
    \/ RetryQuery
    \/ CheckHistory
    \/ Train
    \/ Predict
    \/ Return

Spec == Init /\ [][Next]_vars

(***************************************************************************)
(* SpecShap: the explanation endpoint over stores of two sectors, every    *)
(* sector parameter and horizons up to MaxShapYears, the library pinned.   *)
(***************************************************************************)
ShapLibs ==
    {[pinned |-> TRUE, fit |-> f, step |-> [i \in 1..MaxShapYears |-> k]] :
        f \in {[raises |-> TRUE, r2 |-> NaN], [raises |-> FALSE, r2 |-> Num(900)]},
        k \in {"last", "raise"}}

InitShap ==
    /\ store \in {RowsOf(StrHealth, a) \cup RowsOf(StrOverall, o) :
                    a \in SeqsUpTo(ShapAmounts, MaxShapLen),
                    o \in {<<>>, <<1, 1>>}}
    /\ lib \in ShapLibs
    /\ Idle
    /\ ShapIdle
    /\ first = NoFirst
    /\ ChatIdle
    /\ LoaderIdle

NextShap ==
    \/ Shap(Requests(Sectors, 1..MaxShapYears))
    \/ ShapExecuteQuery
    \/ ShapCallForecast
    \/ ExecuteQuery
    \/ RetryQuery
    \/ CheckHistory
    \/ Train
    \/ Predict
    \/ ShapFinish
    \/ ShapReturn

SpecShap == InitShap /\ [][NextShap]_vars

(***************************************************************************)
(* SpecRepeat: calls repeated against an unchanged store, the library      *)
(* pinned (every regressor is built with random_state=42), the first       *)
(* completed call remembered.                                              *)
(***************************************************************************)
RepeatLibs ==
    {[pinned |-> TRUE, fit |-> f, step |-> [i \in 1..MaxYears |-> k]] :
        f \in FitOutcomes, k \in StepKinds}

InitRepeat ==
    /\ store \in {RowsOf(StrHealth, a) : a \in SeqsUpTo(ShapAmounts, MaxShapLen)}
    /\ lib \in RepeatLibs
    /\ Idle
    /\ ShapIdle
    /\ first = NoFirst
    /\ ChatIdle
    /\ LoaderIdle

NextRepeat ==
    \/ Forecast(Requests({NoneStr}, 1..MaxYears))
    \/ ExecuteQuery
    \/ RetryQuery
    \/ CheckHistory
    \/ Train
    \/ Predict
    \/ ReturnObserved

SpecRepeat == InitRepeat /\ [][NextRepeat]_vars

(***************************************************************************)
(* SpecFrame: forecast calls interleaved with the chat handlers, the       *)
(* library pinned, the first completed forecast call remembered.           *)
(***************************************************************************)
FrameLibs ==
    {[pinned |-> TRUE, fit |-> f, step |-> [i \in 1..MaxYears |-> "last"]] :
        f \in {[raises |-> TRUE, r2 |-> NaN], [raises |-> FALSE, r2 |-> Num(900)]}}

FrameChatInputs ==
    {c \in ChatInputs(Sessions) : c.role = Role("user") /\ c.key}

InitFrame ==
    /\ store \in {RowsOf(StrHealth, a) : a \in SeqsUpTo(ShapAmounts, MaxShapLen)}
    /\ lib \in FrameLibs
    /\ Idle
    /\ ShapIdle
    /\ first = NoFirst
    /\ ChatIdle
    /\ LoaderIdle

NextFrame ==
    \/ Forecast(Requests({NoneStr}, 1..MaxYears))
    \/ ExecuteQuery
    \/ RetryQuery
    \/ CheckHistory
    \/ Train
    \/ Predict
    \/ ReturnObserved
    \/ ChatWithAi(FrameChatInputs, MaxMessages)
    \/ ClearChatHistory(Sessions)

SpecFrame == InitFrame /\ [][NextFrame]_vars

(***************************************************************************)
(* SpecFeatures: the forecast endpoint over short series and one series    *)
(* longer than the cycle divisor, the library pinned.                      *)
(***************************************************************************)
LongSeries == [k \in 1..(CycleDivisor + 1) |-> k]

FeatureLibs ==
    {[pinned |-> TRUE, fit |-> [raises |-> FALSE, r2 |-> Num(900)],
      step |-> [i \in 1..MaxYears |-> k]] : k \in StepKinds}

InitFeatures ==
    /\ store \in {RowsOf(StrHealth, a) :
                    a \in SeqsUpTo(ShapAmounts, MaxShapLen) \cup {LongSeries}}
    /\ lib \in FeatureLibs
    /\ Idle
    /\ ShapIdle
    /\ first = NoFirst
    /\ ChatIdle
    /\ LoaderIdle

NextFeatures ==
    \/ Forecast(Requests({NoneStr}, 1..MaxYears))
    \/ ExecuteQuery
    \/ RetryQuery
    \/ CheckHistory
    \/ Train
    \/ Predict
    \/ Return

SpecFeatures == InitFeatures /\ [][NextFeatures]_vars

(***************************************************************************)
(* SpecDegraded: the forecast endpoint with a library whose fit raises on  *)
(* every series, over stores with steeply falling and rising totals.       *)
(***************************************************************************)
DegradedAmounts == {1, 19}

DegradedLibs ==
    {[pinned |-> TRUE, fit |-> [raises |-> TRUE, r2 |-> NaN],
      step |-> [i \in 1..MaxYears |-> k]] : k \in {"last"}}

InitDegraded ==
    /\ store \in {RowsOf(StrHealth, a) : a \in SeqsUpTo(DegradedAmounts, MaxLen)}
    /\ lib \in DegradedLibs
    /\ Idle
    /\ ShapIdle
    /\ first = NoFirst
    /\ ChatIdle
    /\ LoaderIdle

NextDegraded ==
    \/ Forecast(Requests({NoneStr}, 1..MaxYears \cup {LongHorizon}))
    \/ ExecuteQuery
    \/ RetryQuery
    \/ CheckHistory
    \/ Train
    \/ Predict
    \/ Return

SpecDegraded == InitDegraded /\ [][NextDegraded]_vars

(***************************************************************************)
(* SpecInsights: the forecast endpoint over stores of one outline-numbered *)
(* sector whose yearly totals lie around the bounds of the trend classes,  *)
(* every sector parameter, the library left open.                          *)
(***************************************************************************)
InsightAmounts == {0, 100, 101, 1000}
InsightSectors == Sectors \cup {Str(StrOutlineHealth)}

InitInsights ==
    /\ store \in {RowsOf(StrOutlineHealth, a) :
                    a \in SeqsUpTo(InsightAmounts, MaxShapLen)}
    /\ lib = OpenLib
    /\ Idle
    /\ ShapIdle
    /\ first = NoFirst
    /\ ChatIdle
    /\ LoaderIdle

NextInsights ==
    \/ Forecast(Requests(InsightSectors, {1}))
    \/ ExecuteQuery
    \/ RetryQuery
    \/ CheckHistory
    \/ Train
    \/ Predict
    \/ Return

SpecInsights == InitInsights /\ [][NextInsights]_vars

(***************************************************************************)
(* SpecChat: the chat endpoints over two sessions, every role, with and    *)
(* without an API key, the completion call answering or raising.           *)
(***************************************************************************)
InitChat ==
    /\ store = {}
    /\ lib = OpenLib
    /\ Idle
    /\ ShapIdle
    /\ first = NoFirst
    /\ ChatIdle
    /\ LoaderIdle

NextChat ==
    \/ ChatWithAi(ChatInputs(ChatSessions), MaxChatMessages)
    \/ ClearChatHistory(ChatSessions)

SpecChat == InitChat /\ [][NextChat]_vars

(***************************************************************************)
(* SpecLoader: one load_real_aid_data invocation, the startup thread, over *)
(* every table and file enumerated.  SpecOverlap: the startup thread and   *)
(* the reload task together, their steps interleaved.                      *)
(***************************************************************************)
InitLoader ==
    /\ store = {}
    /\ lib = OpenLib
    /\ Idle
    /\ ShapIdle
    /\ first = NoFirst
    /\ ChatIdle
    /\ data_file \in LoaderFiles
    /\ \E n \in ExistingCounts :
          /\ aid_records = [existing |-> n,
                            loaded |-> [k \in DOMAIN data_file.chunks |-> 0]]
          /\ entities = IF n = 0 THEN {} ELSE {"e0"}
    /\ loaders = [p \in Loaders |-> NotLoading]

NextLoader == Load({"startup"})

SpecLoader == InitLoader /\ [][NextLoader]_vars

NextOverlap == Load(Loaders)

SpecOverlap == InitLoader /\ [][NextOverlap]_vars

(***************************************************************************)
(* Properties.                                                             *)
(***************************************************************************)
Answered == pc = "done" /\ resp.status = 200

(* C1: a forecast that is returned holds exactly `years` points, and the   *)
(* i-th point is dated i years after the latest observed year, whichever   *)
(* path (model, per-step failure, trend) produced it.                      *)
C1_HorizonYears ==
    Answered =>
        /\ Len(resp.predictions) = req.years
        /\ \A i \in 1..Len(resp.predictions) :
              /\ \A row \in store : row.year + i <= resp.predictions[i].year
              /\ \E row \in store : row.year + i = resp.predictions[i].year

C1_Witness ==
    /\ Answered
    /\ req.years = 2
    /\ Len(historical_data) = 3
    /\ use_ml
    /\ step_outcomes = <<"last", "raise">>
    /\ resp.predictions[2].year = FirstYear + 2 * YearStep + 2

(* C2: every returned point satisfies 0 <= lower <= predicted <= upper,    *)
(* negative raw predictions, drift and geometric values included.          *)
C2_BoundsOrdered ==
    Answered =>
        \A i \in 1..Len(resp.predictions) :
            /\ 0 <= resp.predictions[i].lower
            /\ resp.predictions[i].lower <= resp.predictions[i].predicted
            /\ resp.predictions[i].predicted <= resp.predictions[i].upper

(* C3: the accuracy values reported under prophet, xgboost and hybrid lie  *)
(* between 75.0 and the ceiling of that model (86.5, 89.2, 91.8), and the  *)
(* confidence between 75.0 and the ceiling of the requested model.         *)
C3_AccuracyRange ==
    Answered =>
        LET a == resp.accuracy
            within(v, top) == ~v.nan /\ 750 <= v.val /\ v.val <= top
        IN  /\ within(a.prophet, 865)
            /\ within(a.xgboost, 892)
            /\ within(a.hybrid, 918)
            /\ within(a.confidence,
                      IF req.model = "prophet" THEN 865
                      ELSE IF req.model = "xgboost" THEN 892 ELSE 918)

C3_Witness ==
    /\ Answered
    /\ use_ml
    /\ fit_outcome.r2 = Num(-500)
    /\ req.model = "xgboost"
    /\ resp.accuracy.xgboost = Num(750)
    /\ resp.accuracy.hybrid = Num(918)

(* C4: the data checks answer 404 when the query returned no row and 400   *)
(* when it returned exactly one; the empty check comes first, and neither  *)
(* case goes on to a forecast or a 500.                                    *)
C4_DataChecks ==
    [][pc = "check" =>
         /\ Len(historical_data) = 0 => pc' = "done" /\ resp'.status = 404
         /\ Len(historical_data) = 1 => pc' = "done" /\ resp'.status = 400
         /\ Len(historical_data) >= 2 => pc' = "train" /\ resp' = resp]_vars

C4_Witness ==
    /\ pc = "done"
    /\ Len(historical_data) = 1
    /\ resp.status = 400

(* C5: with two or more points the request always ends in a forecast: no   *)
(* failure in features, training, a step, the fallback or the insights     *)
(* reaches the caller.                                                     *)
C5_AlwaysForecast ==
    (pc = "done" /\ Len(historical_data) >= 2) => resp.status = 200

(* C6: when fewer than three rows remain for training after the first two  *)
(* are excluded, no model output is used: every prediction is the          *)
(* geometric value base * factor^i floored at 0.                           *)
C6_ShortSeriesGeometric ==
    (Answered /\ Len(TrainingTargets(AmountsOf(historical_data))) < 3) =>
        \A i \in 1..Len(resp.predictions) :
            resp.predictions[i].predicted =
                Round2(RMax(R(0), TrendStep(i, AmountsOf(historical_data)).predicted))

C8_BucketByYears ==
    (shap_pc = "done" /\ shap_resp.status = 200) =>
        LET e == shap_resp.explanations
        IN  /\ Len(e) = 6
            /\ shap_req.years <= 3 =>
                  e[1].feature = "Historical Trend" /\ e[1].impact = 131947
            /\ shap_req.years \in 4..5 =>
                  e[1].feature = "Development Stage" /\ e[1].impact = 145000
            /\ shap_req.years > 5 =>
                  e[1].feature = "Development Stage" /\ e[1].impact = 182000

C8_Witness ==
    /\ shap_pc = "done"
    /\ shap_resp.status = 200
    /\ shap_req.years = 5
    /\ shap_req.sector = Str(StrHealth)
    /\ shap_resp.explanations[6].feature = "Aid Volatility"

(* C9: the explanation's model_prediction is the predicted value of the    *)
(* last forecast point, and its base_value is the mean of the same         *)
(* historical series the forecast used.                                    *)
C9_SameSeries ==
    (shap_pc = "done" /\ shap_resp.status = 200 /\ resp.status = 200
        /\ ~shap_db_failed) =>
        /\ shap_resp.model_prediction =
              Frac(resp.predictions[Len(resp.predictions)].predicted, 100)
        /\ shap_resp.base_value = Mean(AmountsOf(historical_data))

IdentifierConfig(m) ==
    IF m = "prophet"
    THEN [kind |-> "RandomForest", n_estimators |-> 100, learning_rate |-> 0,
          max_depth |-> 0, expected |-> 865]
    ELSE IF m = "xgboost"
    THEN [kind |-> "GradientBoosting", n_estimators |-> 100,
          learning_rate |-> 10, max_depth |-> 0, expected |-> 892]
    ELSE [kind |-> "GradientBoosting", n_estimators |-> 150,
          learning_rate |-> 8, max_depth |-> 4, expected |-> 918]

(* C10 as stated: the regressor configuration and the ceiling follow from  *)
(* the model identifier alone, for every series length.                    *)
C10_IdentifierAlone ==
    model # NoModel => model = IdentifierConfig(req.model)

(* C10 amended: they follow from the identifier alone for series of five   *)
(* or more points; with fewer than five the regressor is the 100-tree      *)
(* random forest with ceiling 86.5 whatever the identifier.                *)
C10_IdentifierAndLength ==
    model # NoModel =>
        model = IdentifierConfig(IF Len(historical_data) >= 5
                                 THEN req.model ELSE "prophet")

C10_Witness ==
    /\ pc = "done"
    /\ Len(historical_data) = 5
    /\ req.model = "xgboost"
    /\ model.kind = "GradientBoosting"
    /\ model.n_estimators = 100

(* The accuracy the response reports for the requested model. *)
OwnAccuracy ==
    IF req.model = "prophet" THEN resp.accuracy.prophet
    ELSE IF req.model = "xgboost" THEN resp.accuracy.xgboost
    ELSE resp.accuracy.hybrid

(* C11: when training is skipped because the series has fewer than three   *)
(* feature rows, the accuracy reported for the requested model and under   *)
(* confidence is exactly 75.0.                                             *)
C11_SkippedTrainingAccuracy ==
    (Answered /\ Len(historical_data) < 3) =>
        /\ OwnAccuracy = Num(750)
        /\ resp.accuracy.confidence = Num(750)

(* What a step's value p and half-width w become in the returned point:    *)
(* lines 276-285.                                                          *)
Reported(point, p, w) ==
    /\ point.predicted = Round2(RMax(R(0), p))
    /\ point.lower = Round2(RMax(R(0), RSub(p, w)))
    /\ point.upper = Round2(RAdd(p, w))

(* last_amount * (1 + 0.5 * change / last_amount)^i, factor 1.05 at zero *)
GeometricValue(i, amounts) ==
    LET n == Len(amounts)
        change == Frac(amounts[n] - amounts[1], n - 1)
        factor == IF amounts[n] > 0
                  THEN RAdd(R(1), RDiv(change, R(2 * amounts[n])))
                  ELSE Frac(21, 20)
    IN  RMul(R(amounts[n]), RPow(factor, i))

(* C12: if fitting or scoring the model raises, the request still ends in  *)
(* a forecast: the requested model's accuracy is exactly 75.0, every step  *)
(* is the trend value with half-width 0.20 * |predicted|, and the method   *)
(* is "Trend Analysis".                                                    *)
C12_FitFailureDegrades ==
    (pc = "done" /\ fit_outcome.raises) =>
        /\ resp.status = 200
        /\ OwnAccuracy = Num(750)
        /\ resp.accuracy.confidence = Num(750)
        /\ resp.accuracy.method = "Trend Analysis"
        /\ Len(resp.predictions) = req.years
        /\ \A i \in 1..Len(resp.predictions) :
              LET p == GeometricValue(i, AmountsOf(historical_data))
              IN  Reported(resp.predictions[i], p, RMul(RAbs(p), Frac(1, 5)))

(* last_amount + i * (last_amount - first_amount) / (n - 1) *)
LinearValue(i, amounts) ==
    LET n == Len(amounts)
    IN  RAdd(R(amounts[n]), RMul(R(i), Frac(amounts[n] - amounts[1], n - 1)))

(* C13: when the model raises while predicting step i, only step i is the  *)
(* linear value last_amount + i * average_annual_change with half-width    *)
(* 0.20 * |predicted|; every other step, later ones included, is the       *)
(* model's step, and the result has exactly `years` points.                *)
C13_StepFailureIsLocal ==
    (Answered /\ use_ml) =>
        /\ Len(resp.predictions) = req.years
        /\ \A i \in 1..Len(resp.predictions) :
              LET amounts == AmountsOf(historical_data)
                  p == LinearValue(i, amounts)
                  m == MlStep(i, RawPrediction(step_outcomes[i], amounts),
                              amounts, model_accuracy)
              IN  IF step_outcomes[i] = "raise"
                  THEN Reported(resp.predictions[i], p, RMul(RAbs(p), Frac(1, 5)))
                  ELSE Reported(resp.predictions[i], m.predicted, m.variability)

C13_Witness ==
    /\ Answered
    /\ use_ml
    /\ Len(historical_data) = 4
    /\ step_outcomes = <<"raise", "min">>
    /\ resp.predictions[1].predicted # resp.predictions[2].predicted
    /\ ~Reported(resp.predictions[2],
                 LinearValue(2, AmountsOf(historical_data)),
                 RMul(RAbs(LinearValue(2, AmountsOf(historical_data))), Frac(1, 5)))

(* C14: a non-HTTP error raised while generate_shap_explanations derives   *)
(* its output is recovered: the answer is a SHAPResult with exactly the    *)
(* two explanations Historical Trend and Development Needs for the         *)
(* requested sector, and the endpoint never answers with a 500.            *)
C14_ExplanationFailureRecovered ==
    /\ shap_resp.status # 500
    /\ shap_pc = "recovered" =>
          /\ shap_resp.status = 200
          /\ Len(shap_resp.explanations) = 2
          /\ shap_resp.explanations[1].feature = "Historical Trend"
          /\ shap_resp.explanations[2].feature = "Development Needs"
          /\ shap_resp.sector = shap_req.sector

C14_Witness ==
    /\ shap_pc = "recovered"
    /\ shap_req.sector = Str(StrHealth)
    /\ resp.status = 500
    /\ shap_resp.explanations[2].impact = 80000

(* C15: for a series of exactly one point the explanation endpoint         *)
(* surfaces the 400 that generate_forecast raises, and for an empty series *)
(* the 404, so the two conditions stay distinguishable.                    *)
C15_DataErrorsSurfaced ==
    (shap_pc = "done" /\ ~shap_db_failed) =>
        /\ (Len(shap_hist) = 1 /\ resp.status = 400) => shap_resp.status = 400
        /\ (Len(shap_hist) = 0 /\ resp.status = 404) => shap_resp.status = 404

(* C16: a generate_forecast call changes no state that outlives the        *)
(* request: its steps leave the observation store and the chat history as  *)
(* they are, nothing of the call remains once it has returned, and its     *)
(* result does not depend on the requests served before it.                *)
C16_ForecastFrame ==
    /\ [][fvars' # fvars => store' = store /\ chat_history' = chat_history]_vars
    /\ [](pc = "idle" => Idle)
    /\ []((pc = "done" /\ first.set /\ first.req = req /\ first.answered
            /\ ~DatabaseFailed) => resp = first.resp)

C16_Witness ==
    /\ Answered
    /\ use_ml
    /\ first.set
    /\ first.others
    /\ first.req = req
    /\ "s1" \in DOMAIN chat_history
    /\ Len(chat_history["s1"]) = 2

(* The mean of the last up-to-3 first differences of the observed amounts. *)
MeanLastDifferences(amounts) ==
    LET n == Len(amounts)
        k == IF n - 1 < 3 THEN n - 1 ELSE 3
    IN  Frac(amounts[n] - amounts[n - k], k)

(* 0.5 * i * average_annual_change *)
Drift(i, amounts) ==
    RMul(Frac(i, 2), Frac(amounts[Len(amounts)] - amounts[1], Len(amounts) - 1))

(* C17: on step 1 of the model path, if and only if the raw prediction is  *)
(* within 1.0 of the last observed amount, the prediction is replaced by   *)
(* last_amount + 0.75 * (mean of the last up-to-3 first differences); the  *)
(* correction is never applied on steps 2 and later.                       *)
C17_FlatCorrection ==
    (Answered /\ use_ml) =>
        \A i \in 1..Len(resp.predictions) :
            step_outcomes[i] # "raise" =>
                LET amounts == AmountsOf(historical_data)
                    last == R(amounts[Len(amounts)])
                    raw == RawPrediction(step_outcomes[i], amounts)
                    flat == RLess(RAbs(RSub(raw, last)), R(1))
                    value == IF i = 1
                             THEN IF flat
                                  THEN RAdd(last, RMul(Frac(3, 4),
                                                       MeanLastDifferences(amounts)))
                                  ELSE raw
                             ELSE RAdd(raw, Drift(i, amounts))
                IN  resp.predictions[i].predicted = Round2(RMax(R(0), value))

(* C18: on the model path the value reported for step i >= 2 is the        *)
(* model's raw output plus 0.5 * i * average_annual_change, with           *)
(* average_annual_change = (last_amount - first_amount) / (n - 1); step 1  *)
(* receives no drift term.                                                 *)
C18_MultiStepDrift ==
    (Answered /\ use_ml) =>
        \A i \in 1..Len(resp.predictions) :
            step_outcomes[i] # "raise" =>
                LET amounts == AmountsOf(historical_data)
                    n == Len(amounts)
                    raw == RawPrediction(step_outcomes[i], amounts)
                    first_step ==
                        IF RLess(RAbs(RSub(raw, R(amounts[n]))), R(1))
                        THEN RAdd(R(amounts[n]),
                                  RMul(Frac(3, 4), Frac(amounts[n] - amounts[n - 2], 2)))
                        ELSE raw
                    value == IF i >= 2 THEN RAdd(raw, Drift(i, amounts))
                             ELSE first_step
                IN  resp.predictions[i].predicted = Round2(RMax(R(0), value))

C18_Witness ==
    /\ Answered
    /\ use_ml
    /\ Len(historical_data) = 5
    /\ step_outcomes = <<"min", "min">>
    /\ AmountsOf(historical_data) = <<0, 1, 7, 1, 7>>
    /\ resp.predictions[1].predicted = 100
    /\ resp.predictions[2].predicted = 275

AccuracySamples == {0, 750, 800, 865, 892, 918, 1000}
SampleFactors == [a \in AccuracySamples |-> ConfidenceFactor(a)]
FactorsMonotone ==
    \A a, b \in AccuracySamples :
        /\ RLeq(Frac(1, 10), SampleFactors[a])
        /\ a <= b => RLeq(SampleFactors[b], SampleFactors[a])

(* C19: on the model path the half-width of a step is                      *)
(* |predicted| * (0.10 + 0.25 * (100 - accuracy) / 100), taken from the    *)
(* drift-adjusted prediction; the factor is never below 0.10, and for the  *)
(* same predicted value a lower accuracy never gives a narrower interval.  *)
C19_HalfWidth ==
    (Answered /\ use_ml) =>
        \A i \in 1..Len(resp.predictions) :
            step_outcomes[i] # "raise" =>
                LET amounts == AmountsOf(historical_data)
                    factor(a) == RAdd(Frac(1, 10),
                                      RMul(Frac(1, 4), Frac(1000 - a, 1000)))
                IN  \A p \in {MlStep(i, RawPrediction(step_outcomes[i], amounts),
                                     amounts, model_accuracy).predicted} :
                    \A w \in {RMul(RAbs(p), factor(model_accuracy.val))} :
                        /\ resp.predictions[i].upper = Round2(RAdd(p, w))
                        /\ resp.predictions[i].lower = Round2(RMax(R(0), RSub(p, w)))
                        /\ RLeq(Frac(1, 10), ConfidenceFactor(model_accuracy.val))
                        /\ FactorsMonotone
                        /\ RLeq(RMul(RAbs(p), SampleFactors[1000]), w)
                        /\ RLeq(w, RMul(RAbs(p), SampleFactors[0]))

C19_Witness ==
    /\ Answered
    /\ use_ml
    /\ model_accuracy = Num(865)
    /\ AmountsOf(historical_data) = <<0, 1, 7, 1, 7>>
    /\ step_outcomes = <<"min", "min">>
    /\ resp.predictions[2].predicted = 275
    /\ resp.predictions[2].upper = 312
    /\ resp.predictions[2].lower = 238

(* C20: on the model path the feature row of step i is the last observed   *)
(* feature row with only the index (n + i - 1) and the two cyclical fields *)
(* (divisor max(n, 8)) changed; the lag, trend, rolling-mean, volatility   *)
(* and growth fields are those of the observations for every step, so no   *)
(* step's input depends on the predictions of earlier steps.               *)
C20_StepFeatureRow ==
    (Answered /\ use_ml) =>
        LET amounts == AmountsOf(historical_data)
            n == Len(amounts)
            divisor == IF n > 8 THEN n ELSE 8
        IN  /\ Len(new_features) = req.years
            /\ \A i \in 1..Len(new_features) :
                  LET f == new_features[i]
                  IN  /\ f.year_idx = n + i - 1
                      /\ f.year_sin = [fn |-> "sin", turns |-> Frac(n + i - 1, divisor)]
                      /\ f.year_cos = [fn |-> "cos", turns |-> Frac(n + i - 1, divisor)]
                      /\ f.lag1 = df[n].lag1
                      /\ f.lag1 = FNum(R(amounts[n - 1]))
                      /\ f.lag2 = df[n].lag2
                      /\ f.lag2 = FNum(R(amounts[n - 2]))
                      /\ f.trend = df[n].trend
                      /\ f.trend = FNum(R(amounts[n] - amounts[n - 1]))
                      /\ f.rolling_mean_3 = df[n].rolling_mean_3
                      /\ f.rolling_mean_3 =
                            FNum(Frac(amounts[n] + amounts[n - 1] + amounts[n - 2], 3))
                      /\ f.volatility = df[n].volatility
                      /\ f.growth_rate = df[n].growth_rate

C20_Witness ==
    /\ Answered
    /\ use_ml
    /\ Len(historical_data) = 9
    /\ req.years = 2
    /\ step_outcomes = <<"last", "last">>
    /\ new_features[2].year_idx = 10
    /\ new_features[2].year_cos.turns = <<10, 9>>
    /\ new_features[2].lag1 = FNum(R(8))
    /\ df[9].year_sin.turns = <<8, 9>>

(* The change per year of the fetched series, times (n - 1). *)
TotalChange ==
    historical_data[Len(historical_data)].total_aid - historical_data[1].total_aid

(* C21: the first insight classifies the trend by c = (last - first) /     *)
(* (n - 1): growth when c > 100, worded strong and in billions when        *)
(* |c| >= 1000 and positive in millions otherwise; declining when          *)
(* c < -100, in billions when |c| >= 1000 and in millions otherwise;       *)
(* stable otherwise, c = 100 and c = -100 included.                        *)
C21_TrendClasses ==
    Answered =>
        LET k == Len(historical_data) - 1
            t == resp.insights[1].text
        IN  /\ resp.insights[1].kind = "trend"
            /\ TotalChange >= 1000 * k
                  <=> t = <<"strong growth trend, B USD/year">>
            /\ (TotalChange > 100 * k /\ TotalChange < 1000 * k)
                  <=> t = <<"positive growth trend, M USD/year">>
            /\ TotalChange <= -1000 * k
                  <=> t = <<"declining trend, B USD/year">>
            /\ (TotalChange < -100 * k /\ TotalChange > -1000 * k)
                  <=> t = <<"declining trend, M USD/year">>
            /\ (TotalChange <= 100 * k /\ TotalChange >= -100 * k)
                  <=> t = <<"remain relatively stable">>

C21_Witness ==
    /\ Answered
    /\ Len(historical_data) = 2
    /\ TotalChange = -100
    /\ resp.insights[1].text = <<"remain relatively stable">>

(* The kinds of the insights, in order. *)
InsightKinds == [i \in 1..Len(resp.insights) |-> resp.insights[i].kind]

(* C22: the insights are ordered: the trend sentence(s), one confidence    *)
(* sentence whose confidence and uncertainty are integers summing to 100,  *)
(* one base-amount sentence naming the last observed year, and last a      *)
(* sector sentence, present if and only if the sector filter was applied   *)
(* to the query.                                                           *)
C22_InsightOrder ==
    Answered =>
        LET trend == IF resp.insights[1].text = <<"remain relatively stable">>
                     THEN <<"trend">> ELSE <<"trend", "note">>
            sector == IF ForecastFilters(req.sector) THEN <<"sector">> ELSE <<>>
            c == resp.insights[Len(trend) + 1]
            b == resp.insights[Len(trend) + 2]
        IN  /\ InsightKinds = trend \o <<"confidence", "base">> \o sector
            /\ c.a \in 0..100 /\ c.b \in 0..100 /\ c.a + c.b = 100
            /\ c.a = model_accuracy.val \div 10
            /\ b.b = historical_data[Len(historical_data)].year

C22_Witness ==
    /\ Answered
    /\ req.sector = Str(StrHealth)
    /\ InsightKinds = <<"trend", "note", "confidence", "base", "sector">>

(* A name that starts with a Roman numeral followed by a dot. *)
OutlinePrefixed(s) ==
    LET k == Span(s, 1, {"I", "V", "X"})
    IN  k > 0 /\ k < Len(s) /\ s[k + 1] = "."

(* C23: the sector sentence shows the sector name with only a leading      *)
(* outline prefix removed: a name without such a prefix is shown           *)
(* unchanged, and cleaning the name shown changes nothing.                 *)
C23_SectorCleaning ==
    (Answered /\ ForecastFilters(req.sector)) =>
        LET shown == resp.insights[Len(resp.insights)].text
        IN  /\ ~OutlinePrefixed(req.sector.val) => shown = req.sector.val
            /\ SectorClean(shown) = shown

(* The regressor and the ceiling a method label names. *)
ForestLabels == {"Random Forest (Prophet Mode)"}
BoostingLabels == {"Gradient Boosting (XGBoost Mode)",
                   "Advanced Gradient Boosting (Hybrid Mode)"}
LabelCeiling(label) ==
    IF label \in ForestLabels THEN CeilingProphet
    ELSE IF label = "Gradient Boosting (XGBoost Mode)" THEN CeilingXgboost
    ELSE CeilingHybrid

(* C24: the method label names what produced the forecast: the random      *)
(* forest label exactly when a random forest was fitted, a gradient        *)
(* boosting label exactly when a boosted-trees regressor was fitted,       *)
(* "Trend Analysis" exactly when no model was used; and the requested      *)
(* model's accuracy is capped by the ceiling of the regressor the label    *)
(* names.                                                                  *)
C24_MethodLabel ==
    Answered =>
        LET label == resp.accuracy.method
        IN  /\ label = "Trend Analysis" <=> ~use_ml
            /\ label \in ForestLabels
                 <=> (use_ml /\ model.kind = "RandomForest")
            /\ label \in BoostingLabels
                 <=> (use_ml /\ model.kind = "GradientBoosting")
            /\ use_ml => resp.accuracy[req.model].val <= LabelCeiling(label)

(* The locals of the call other than the rows fetched. *)
CallState == <<caller, req, model, use_ml, model_accuracy, fit_outcome,
               step_outcomes, resp, df, new_features>>

(* C25: when the first execution of the history query raises, the query is *)
(* executed exactly once more; a retry that succeeds leaves the call where *)
(* a first success would have left it, and a retry that raises ends the    *)
(* request with a 500, with no third attempt.                              *)
C25_QueryRetry ==
    [][/\ (pc = "query" /\ pc' # pc) =>
             /\ CallState' = CallState
             /\ \/ pc' = "check" /\ historical_data' = ForecastQuery(store, req)
                \/ pc' = "retry" /\ historical_data' = <<>>
       /\ (pc = "retry" /\ pc' # pc) =>
             \/ /\ pc' = "check"
                /\ historical_data' = ForecastQuery(store, req)
                /\ CallState' = CallState
             \/ /\ pc' = "done"
                /\ resp'.status = 500
       /\ pc' = "retry" => pc \in {"query", "retry"}
       /\ store' = store]_vars

C25_Witness ==
    /\ pc = "done"
    /\ resp.status = 500
    /\ historical_data = <<>>
    /\ ForecastQuery(store, req) # <<>>

(* The roles user, assistant, user, assistant, ... *)
Alternates(h) ==
    /\ Len(h) % 2 = 0
    /\ \A i \in 1..Len(h) :
          h[i].role = (IF i % 2 = 1 THEN "user" ELSE "assistant")

(* C26: every stored session history has even length and alternates user,  *)
(* assistant; each chat_with_ai call appends exactly two messages to its   *)
(* own session, the user message and then the assistant reply or error     *)
(* message, whatever the role of the request and whether or not the        *)
(* completion call failed, and leaves every other session unchanged.       *)
C26_ChatSessions ==
    /\ [](\A sid \in DOMAIN chat_history : Alternates(chat_history[sid]))
    /\ [][chat_resp' # chat_resp =>
            \E sid \in DOMAIN chat_history' :
               LET before == IF sid \in DOMAIN chat_history
                             THEN chat_history[sid] ELSE <<>>
                   after == chat_history'[sid]
               IN  /\ Len(after) = Len(before) + 2
                   /\ SubSeq(after, 1, Len(before)) = before
                   /\ after[Len(after) - 1].role = "user"
                   /\ after[Len(after)].role = "assistant"
                   /\ \A o \in DOMAIN chat_history' \ {sid} :
                         /\ o \in DOMAIN chat_history
                         /\ chat_history'[o] = chat_history[o]]_vars

(* C27: without OPENAI_API_KEY chat_with_ai makes no completion call,      *)
(* answers with the fixed "I need an OpenAI API key" message and stores    *)
(* that message as the assistant entry of the session; the answer is not   *)
(* the "technical difficulties" error response.                            *)
C27_MissingKeyNotice ==
    [][(chat_resp' # chat_resp /\ chat_resp'.status = 200
        /\ ~chat_resp'.called) =>
            /\ chat_resp'.response = FixedNotice
            /\ \E sid \in DOMAIN chat_history' :
                  chat_history'[sid][Len(chat_history'[sid])] =
                      [role |-> "assistant", content |-> FixedNotice]]_vars

(* C28: load_real_aid_data leaves the aid_records table unchanged whenever *)
(* it loads nothing, both when it returns on 1000 or more existing records *)
(* and when the data file does not exist, whatever the number of records   *)
(* before the call.                                                        *)
C28_NothingLoadedNothingChanged ==
    \A p \in Loaders :
        (loaders[p].pc = "done" /\ loaders[p].exit \in {"existing", "no_file"})
            => /\ Count = loaders[p].existing_count
               /\ aid_records.existing = loaders[p].existing_count

(* C29: a chunk whose insert fails is rolled back as a whole and does not  *)
(* affect later chunks: when the records of a later chunk are inserted,    *)
(* every code they reference is stored, by a committed chunk or by the     *)
(* chunk itself, codes first seen in the failed chunk included; so a chunk *)
(* fails only when the database fails on that chunk.                       *)
C29_FailedChunkIsolated ==
    \A p \in Loaders :
        /\ loaders[p].pc = "insert" =>
              data_file.chunks[loaders[p].chunk].refs
                  \subseteq (entities \cup loaders[p].to_add)
        /\ loaders[p].failures \subseteq loaders[p].faults

(* C30: when two invocations overlap, the records of the file are stored   *)
(* at most once, and no invocation deletes records while the other is      *)
(* loading, under every interleaving of their steps.                       *)
C30_StoredAtMostOnce ==
    /\ [](\A k \in DOMAIN aid_records.loaded : aid_records.loaded[k] <= 1)
    /\ [][(\E k \in DOMAIN aid_records.loaded :
              aid_records.loaded'[k] < aid_records.loaded[k])
          => \A q \in Loaders : loaders[q].pc \notin {"file", "rows", "insert"}]_vars

====
